---- MODULE Spec2Model ----
(***************************************************************************)
(* TensorBoardPlotter (src/tensorboard_plotter/plot.py): one call of       *)
(* plot() followed by the pick events the figure's event loop delivers to  *)
(* on_legend_click.                                                        *)
(*                                                                         *)
(* Numbers.  A float is modelled by the exact rational it stands for, a    *)
(* record [num, den] with den > 0.  Display intensities (the matplotlib    *)
(* alpha of a line) are kept in tenths: 0 is transparent, 3 is 0.3 and 10  *)
(* is 1.0.                                                                 *)
(*                                                                         *)
(* Directories.  A directory is a function from the names it holds to its  *)
(* entries; a name is the rank it has in the lexicographic order, so that  *)
(* sorted(os.listdir(d)) is the increasing sequence of DOMAIN d.           *)
(***************************************************************************)
EXTENDS Integers, Sequences, FiniteSets, TLC

(***************************************************************************)
(* Bounds of the input sets.                                               *)
(***************************************************************************)
MaxVersions == 3    \* names a log_dir may hold
MaxRuns == 3        \* runs of the version of the aggregation inputs
MaxLen == 3         \* samples of a run of the aggregation inputs
MaxRawLen == 2      \* samples of the run of the smoothing inputs
MaxVal == 2         \* raw values of the smoothing inputs are -MaxVal..MaxVal
AlphaDen == 2       \* --alpha is drawn from the multiples of 1/AlphaDen

(***************************************************************************)
(* Program constants.                                                      *)
(***************************************************************************)
EpsDen == 10000     \* alpha_i = 1e-4 = 1/EpsDen when 1 - alpha is 0

Rat(n, d) == [num |-> n, den |-> d]

RECURSIVE Pow(_, _)
Pow(b, e) == IF e = 0 THEN 1 ELSE b * Pow(b, e - 1)

RECURSIVE SumTo(_, _)
\* f[1] + ... + f[n]
SumTo(f, n) == IF n = 0 THEN 0 ELSE SumTo(f, n - 1) + f[n]

Min2(a, b) == IF a <= b THEN a ELSE b

MinOf(S) == CHOOSE m \in S : \A k \in S : m <= k

MaxOf(S) == CHOOSE m \in S : \A k \in S : k <= m

(***************************************************************************)
(* sorted(os.listdir(path)): the names of a directory in increasing order. *)
(***************************************************************************)
RECURSIVE SortedNames(_)
SortedNames(S) ==
    IF S = {} THEN <<>>
    ELSE LET m == MinOf(S) IN <<m>> \o SortedNames(S \ {m})

SortedListdir(dir) == SortedNames(DOMAIN dir)

\* The folder name of the version directory of rank r.
VersionName(r) == "v" \o ToString(r)

(***************************************************************************)
(* f.read().strip() on the text of folder_alias.txt.  The text is a        *)
(* sequence of tokens, a token being a whitespace character or a word;     *)
(* strip() removes the whitespace tokens at both ends.                     *)
(***************************************************************************)
IsSpace(tok) == tok \in {" ", "\n", "\t"}

RECURSIVE LStrip(_)
LStrip(s) == IF s # <<>> /\ IsSpace(Head(s)) THEN LStrip(Tail(s)) ELSE s

RECURSIVE RStrip(_)
RStrip(s) ==
    IF s # <<>> /\ IsSpace(s[Len(s)]) THEN RStrip(SubSeq(s, 1, Len(s) - 1)) ELSE s

Strip(s) == RStrip(LStrip(s))

(***************************************************************************)
(* pandas: Series.ewm(alpha=a).mean() with the default adjust=True,        *)
(*   y[i] = (SUM_k (1-a)^(i-k) x[k]) / (SUM_k (1-a)^(i-k)),  k = 1..i.     *)
(* With a = p/q both sums are scaled by q^(i-1), which keeps them          *)
(* integers.  ewm() raises ValueError unless 0 < a <= 1.                   *)
(***************************************************************************)
EwmAlphaOk(a) == 0 < a.num /\ a.num <= a.den

EwmWeight(a, i, k) == Pow(a.den - a.num, i - k) * Pow(a.den, k - 1)

\* EwmDen as a plain mean would have it: the count of the samples.
EwmDenCount(a, i) == i * Pow(a.den, i - 1)

EwmDen(a, i) == SumTo([k \in 1..i |-> EwmWeight(a, i, k)], i)

EwmNum(values, a, i) ==
    SumTo([k \in 1..i |-> EwmWeight(a, i, k) * values[k]], i)

EwmMean(values, a) ==
    [i \in 1..Len(values) |-> Rat(EwmNum(values, a, i), EwmDen(a, i))]

(***************************************************************************)
(* plot(), lines 311-314: alpha_i = 1 - alpha, floored to 1e-4 when 0.     *)
(***************************************************************************)
InvertAlpha(al) ==
    IF al.den - al.num = 0 THEN Rat(1, EpsDen)
    ELSE Rat(al.den - al.num, al.den)

(***************************************************************************)
(* _extract_and_smooth_metrics.  A run holds the events of the requested   *)
(* metric in raw; the metric is among ea.scalars.Keys() iff there is one.  *)
(* The DataFrame is the sequence of its rows' "value" column; the empty    *)
(* DataFrame is the empty sequence.                                        *)
(***************************************************************************)
HasMetric(run) == Len(run.raw) > 0

ExtractAndSmoothMetrics(run, alpha_i) ==
    IF ~HasMetric(run) THEN <<>> ELSE EwmMean(run.raw, alpha_i)

\* The call of ewm() in _extract_and_smooth_metrics raises.
ExtractRaises(run, alpha_i) == HasMetric(run) /\ ~EwmAlphaOk(alpha_i)

(***************************************************************************)
(* _collect_version_data.                                                  *)
(***************************************************************************)
\* The alias of a version directory: folder_alias.txt stripped, else the name.
ResolveAlias(r, version) ==
    IF version.has_alias_file THEN Strip(version.alias_text)
    ELSE <<VersionName(r)>>

\* The run directories of a version, in sorted order.
RunDirs(version) ==
    LET names == SortedListdir(version.runs)
        IsDir(n) == version.runs[n].isdir
    IN  [j \in 1..Len(SelectSeq(names, IsDir)) |->
            version.runs[SelectSeq(names, IsDir)[j]]]

\* run_dataframes: the non-empty DataFrames of the run directories.
RunDataframes(version, alpha_i) ==
    LET dfs == [j \in 1..Len(RunDirs(version)) |->
                   ExtractAndSmoothMetrics(RunDirs(version)[j], alpha_i)]
        NotEmpty(df) == df # <<>>
    IN  SelectSeq(dfs, NotEmpty)

\* The version directories of log_dir, as their names in sorted order.
VersionDirs(dir) ==
    LET IsDir(n) == dir[n].isdir
    IN  SelectSeq(SortedListdir(dir), IsDir)

\* CollectVersionData appending a version only when it has a DataFrame.
CollectVersionDataSkipEmpty(dir, alpha_i) ==
    LET all == [i \in 1..Len(VersionDirs(dir)) |->
                   LET r == VersionDirs(dir)[i] IN
                   [alias |-> ResolveAlias(r, dir[r]),
                    run_dataframes |-> RunDataframes(dir[r], alpha_i)]]
        HasRuns(vdata) == vdata.run_dataframes # <<>>
    IN  SelectSeq(all, HasRuns)

CollectVersionData(dir, alpha_i) ==
    [i \in 1..Len(VersionDirs(dir)) |->
        LET r == VersionDirs(dir)[i] IN
        [alias |-> ResolveAlias(r, dir[r]),
         run_dataframes |-> RunDataframes(dir[r], alpha_i)]]

\* Some call of _extract_and_smooth_metrics made by the collection raises.
CollectRaises(dir, alpha_i) ==
    \E i \in 1..Len(VersionDirs(dir)) :
        \E j \in 1..Len(RunDirs(dir[VersionDirs(dir)[i]])) :
            ExtractRaises(RunDirs(dir[VersionDirs(dir)[i]])[j], alpha_i)

(***************************************************************************)
(* _plot_versions.  A line is the record of what ax.plot was given: its    *)
(* label, color, alpha (in tenths), linewidth and number of points.        *)
(***************************************************************************)
\* ColorOf with the index off by one: colors[(idx + 1) % len(colors)].
ColorOfNext(cycle, i) == cycle[(i % Len(cycle)) + 1]

\* colors[idx % len(colors)], idx counting from 0 and i = idx + 1.
ColorOf(cycle, i) == cycle[((i - 1) % Len(cycle)) + 1]

\* Lines 196-211: the line of one run; min_len is len(df).
RunLine(df, cycle, i) ==
    [label |-> <<>>, color |-> ColorOf(cycle, i), alpha |-> 3, linewidth |-> 1,
     npoints |-> Min2(Len(df), Len(df))]

\* Line 217: runs_lines, or [] under plot_mean_only.
RunsLines(dfs, mean_only, cycle, i) ==
    IF mean_only THEN <<>>
    ELSE [j \in 1..Len(dfs) |-> RunLine(dfs[j], cycle, i)]

\* Line 221: pd.concat(all_runs_values, axis=1) joins the columns on the
\* union of their row labels 0..len-1: as many rows as the longest column.
\* Line 222: mean(axis=1) skips the missing cells and keeps every row.
MeanValuesLen(dfs) == MaxOf({Len(dfs[j]) : j \in 1..Len(dfs)})

\* Lines 225-227: min_len = min(len(all_runs_x[-1]), len(mean_values)).
MeanLen(dfs) == Min2(Len(dfs[Len(dfs)]), MeanValuesLen(dfs))

\* Lines 220-240: [mean_line] when the version has a run, else [].
MainLines(vdata, cycle, i) ==
    IF Len(vdata.run_dataframes) > 0
    THEN << [label |-> vdata.alias, color |-> ColorOf(cycle, i), alpha |-> 10,
             linewidth |-> 2, npoints |-> MeanLen(vdata.run_dataframes)] >>
    ELSE <<>>

PlotMain(vd, cycle) ==
    [i \in 1..Len(vd) |-> MainLines(vd[i], cycle, i)]

PlotRuns(vd, mean_only, cycle) ==
    [i \in 1..Len(vd) |-> RunsLines(vd[i].run_dataframes, mean_only, cycle, i)]

\* legend_lines: the mean lines in the order they were drawn, each named by
\* the index of its version in line_collections_main.
LegendLines(vd) ==
    LET HasRuns(i) == Len(vd[i].run_dataframes) > 0
    IN  SelectSeq([i \in 1..Len(vd) |-> i], HasRuns)

(***************************************************************************)
(* on_legend_click.                                                        *)
(***************************************************************************)
\* artist_label in legend_lines_labels
LabelIn(labels, label) == \E i \in 1..Len(labels) : labels[i] = label

\* legend_lines_labels.index(artist_label), counting from 1.
IndexOf(labels, label) == MinOf({i \in 1..Len(labels) : labels[i] = label})

\* Line 283: 0 if line.get_alpha() > 0 else 1
ToggleMainAlpha(a) == IF a > 0 THEN 0 ELSE 10

\* ToggleRunAlpha showing a run line again at 1.0, as a mean line.
ToggleRunAlphaOpaque(a) == IF a > 0 THEN 0 ELSE 10

\* Line 287: 0 if line.get_alpha() > 0 else 0.3
ToggleRunAlpha(a) == IF a > 0 THEN 0 ELSE 3

ToggleMainLines(lines) ==
    [j \in 1..Len(lines) |-> [lines[j] EXCEPT !.alpha = ToggleMainAlpha(@)]]

\* ToggleRunLines leaving the run lines as they are.
KeepRunLines(lines) == lines

ToggleRunLines(lines) ==
    [j \in 1..Len(lines) |-> [lines[j] EXCEPT !.alpha = ToggleRunAlpha(@)]]

(***************************************************************************)
(* The state.                                                              *)
(***************************************************************************)
VARIABLES
    log_dir,                \* [exists, dir]: the directory --log_dir names
    alpha,                  \* self.alpha
    plot_mean_only,         \* self.plot_mean_only
    colors,                 \* plt.rcParams["axes.prop_cycle"] colors
    pc,                     \* the position in plot()
    raised,                 \* the exception plot() ended with, or "none"
    version_data,           \* plot(): version_data
    fig,                    \* the figure exists
    line_collections_main,  \* plot(): line_collections_main
    line_collections_runs,  \* plot(): line_collections_runs
    legend_lines,           \* plot(): legend_lines
    legend_lines_labels,    \* the closure's legend_lines_labels
    event,                  \* <<label>> of the last pick event handled, or <<>>
    before                  \* the display intensities that event found

vars == <<log_dir, alpha, plot_mean_only, colors, pc, raised, version_data, fig,
          line_collections_main, line_collections_runs, legend_lines,
          legend_lines_labels, event, before>>

inputs == <<log_dir, alpha, plot_mean_only, colors>>

\* The display intensity of every line.
Intensities(main, runs) ==
    [main |-> [i \in 1..Len(main) |-> [j \in 1..Len(main[i]) |-> main[i][j].alpha]],
     runs |-> [i \in 1..Len(runs) |-> [j \in 1..Len(runs[i]) |-> runs[i][j].alpha]]]

Display == Intensities(line_collections_main, line_collections_runs)

(***************************************************************************)
(* The inputs: what the file system holds under --log_dir, --alpha,        *)
(* --plot_mean_only and the color cycle of the matplotlib configuration.   *)
(* Three families: directories of several versions under a cycle of two    *)
(* colors, which three versions wrap around (legend and toggles),          *)
(* one version of several runs of different lengths (aggregation), and one *)
(* run of arbitrary values under every alpha (smoothing, startup errors).  *)
(***************************************************************************)
RunDir(raw) == [isdir |-> TRUE, raw |-> raw]

RunFile == [isdir |-> FALSE, raw |-> <<>>]

VersionDir(has_file, text, runs) ==
    [isdir |-> TRUE, has_alias_file |-> has_file, alias_text |-> text, runs |-> runs]

VersionFile ==
    [isdir |-> FALSE, has_alias_file |-> FALSE, alias_text |-> <<>>, runs |-> <<>>]

LogDir(dir) == [exists |-> TRUE, dir |-> dir]

NoLogDir == [exists |-> FALSE, dir |-> <<>>]

\* The default color cycle of matplotlib, and a cycle of two colors.
Tab10 == <<"C0", "C1", "C2", "C3", "C4", "C5", "C6", "C7", "C8", "C9">>

TwoColors == <<"r", "b">>

Alphas == {Rat(n, AlphaDen) : n \in (0 - 1)..(AlphaDen + 1)}

NoSmoothing == Rat(0, AlphaDen)

ToggleRunLists ==
    { <<>>,
      <<RunDir(<<>>)>>,
      <<RunDir(<<1>>)>>,
      <<RunDir(<<1>>), RunFile, RunDir(<<2, 1>>)>> }

ToggleVersions ==
    {VersionFile}
    \cup {VersionDir(FALSE, <<>>, rl) : rl \in ToggleRunLists}
    \cup {VersionDir(TRUE, <<" ", "Baseline", "\n">>, rl) : rl \in ToggleRunLists}

ToggleDirs == UNION {[S -> ToggleVersions] : S \in SUBSET (1..MaxVersions)}

ToggleInputs ==
    {<<LogDir(d), NoSmoothing, m, TwoColors>> : d \in ToggleDirs, m \in BOOLEAN}

\* A series of n samples of value 1.
Ones(n) == [k \in 1..n |-> 1]

AggRunLists ==
    UNION {[1..n -> {RunDir(Ones(l)) : l \in 1..MaxLen}] : n \in 1..MaxRuns}

AggInputs ==
    {<<LogDir(<<VersionDir(FALSE, <<>>, rl)>>), a, m, Tab10>> :
        rl \in AggRunLists, a \in {NoSmoothing, Rat(1, AlphaDen)}, m \in BOOLEAN}

RawSeries == UNION {[1..n -> (0 - MaxVal)..MaxVal] : n \in 1..MaxRawLen}

SmoothDirs ==
    {NoLogDir, LogDir(<<>>), LogDir(<<VersionDir(FALSE, <<>>, <<RunDir(<<>>)>>)>>)}
    \cup {LogDir(<<VersionDir(FALSE, <<>>, <<RunDir(raw)>>)>>) : raw \in RawSeries}

SmoothInputs == {<<d, a, FALSE, Tab10>> : d \in SmoothDirs, a \in Alphas}

Inputs == ToggleInputs \cup AggInputs \cup SmoothInputs

(***************************************************************************)
(* The state after TensorBoardPlotter(...) and before plot().              *)
(***************************************************************************)
Init ==
    /\ \E in \in Inputs :
        /\ log_dir = in[1]
        /\ alpha = in[2]
        /\ plot_mean_only = in[3]
        /\ colors = in[4]
    /\ pc = "start"
    /\ raised = "none"
    /\ version_data = <<>>
    /\ fig = FALSE
    /\ line_collections_main = <<>>
    /\ line_collections_runs = <<>>
    /\ legend_lines = <<>>
    /\ legend_lines_labels = <<>>
    /\ event = <<>>
    /\ before = Intensities(<<>>, <<>>)

(***************************************************************************)
(* plot(), lines 311-317: the inversion of alpha and the collection.       *)
(* os.listdir raises FileNotFoundError when log_dir does not exist; the    *)
(* first ewm() given an alpha_i outside (0, 1] raises ValueError.          *)
(***************************************************************************)
Collect ==
    /\ pc = "start"
    /\ IF ~log_dir.exists
       THEN /\ raised' = "FileNotFoundError"
            /\ pc' = "error"
            /\ UNCHANGED version_data
       ELSE IF CollectRaises(log_dir.dir, InvertAlpha(alpha))
       THEN /\ raised' = "ValueError"
            /\ pc' = "error"
            /\ UNCHANGED version_data
       ELSE /\ version_data' = CollectVersionData(log_dir.dir, InvertAlpha(alpha))
            /\ pc' = "collected"
            /\ UNCHANGED raised
    /\ UNCHANGED <<inputs, fig, line_collections_main, line_collections_runs,
                   legend_lines, legend_lines_labels, event, before>>

\* plot(), line 320: plt.subplots.
CreateFigure ==
    /\ pc = "collected"
    /\ fig' = TRUE
    /\ pc' = "figure"
    /\ UNCHANGED <<inputs, raised, version_data, line_collections_main,
                   line_collections_runs, legend_lines, legend_lines_labels,
                   event, before>>

\* plot(), lines 323-325: _plot_versions.
PlotVersions ==
    /\ pc = "figure"
    /\ line_collections_main' = PlotMain(version_data, colors)
    /\ line_collections_runs' = PlotRuns(version_data, plot_mean_only, colors)
    /\ legend_lines' = LegendLines(version_data)
    /\ pc' = "plotted"
    /\ UNCHANGED <<inputs, raised, version_data, fig, legend_lines_labels,
                   event, before>>

\* plot(), lines 334-346: the labels of the legend and the pick handler.
ConnectLegend ==
    /\ pc = "plotted"
    /\ legend_lines_labels' =
          [k \in 1..Len(legend_lines) |->
              line_collections_main[legend_lines[k]][1].label]
    /\ pc' = "interactive"
    /\ UNCHANGED <<inputs, raised, version_data, fig, line_collections_main,
                   line_collections_runs, legend_lines, event, before>>

\* The labels a pick event may carry: those of the versions, and one of none.
PickLabels ==
    {version_data[i].alias : i \in 1..Len(version_data)} \cup {<<"nonexistent">>}

\* ClickMain without the membership test, the index defaulting to -1 (the
\* last version) as str.find has it.
ClickMainUnguarded(labels, main, label) ==
    IF main = <<>> THEN main
    ELSE [main EXCEPT ![IF LabelIn(labels, label)
                        THEN IndexOf(labels, label)
                        ELSE Len(main)] = ToggleMainLines(@)]

\* Lines 275-283: line_collections_main after the handler.
ClickMain(labels, main, label) ==
    IF LabelIn(labels, label)
    THEN [main EXCEPT ![IndexOf(labels, label)] = ToggleMainLines(@)]
    ELSE main

\* Lines 275-287: line_collections_runs after the handler.
ClickRuns(labels, runs, label) ==
    IF LabelIn(labels, label) /\ runs # <<>>
    THEN [runs EXCEPT ![IndexOf(labels, label)] = ToggleRunLines(@)]
    ELSE runs

\* on_legend_click(event), lines 272-289, with event.artist.get_label() = label.
OnLegendClick(label) ==
    /\ pc = "interactive"
    /\ event' = <<label>>
    /\ before' = Display
    /\ line_collections_main' =
          ClickMain(legend_lines_labels, line_collections_main, label)
    /\ line_collections_runs' =
          ClickRuns(legend_lines_labels, line_collections_runs, label)
    /\ UNCHANGED <<inputs, pc, raised, version_data, fig, legend_lines,
                   legend_lines_labels>>

Next ==
    \/ Collect
    \/ CreateFigure
    \/ PlotVersions
    \/ ConnectLegend
    \/ \E label \in PickLabels : OnLegendClick(label)

Spec == Init /\ [][Next]_vars

(***************************************************************************)
(* Vocabulary of the properties.                                           *)
(***************************************************************************)
\* _plot_versions has returned.
Plotted == pc \in {"plotted", "interactive"}

\* The step is a call of on_legend_click (the only step of the interactive
\* phase); the label it carries is event'[1].
ClickStep == pc = "interactive" /\ pc' = "interactive"

\* The display state right after _plot_versions: mean lines at 1.0, run
\* lines at 0.3.
DefaultDisplay ==
    [main |-> [i \in 1..Len(line_collections_main) |->
                  [j \in 1..Len(line_collections_main[i]) |-> 10]],
     runs |-> [i \in 1..Len(line_collections_runs) |->
                  [j \in 1..Len(line_collections_runs[i]) |-> 3]]]

\* The version directories of log_dir and the position of each in the
\* sorted enumeration.
Dirs == {r \in DOMAIN log_dir.dir : log_dir.dir[r].isdir}

DirPos(r) == Cardinality({q \in Dirs : q <= r})

\* The raw series of the runs of a version directory that have the metric.
DataRuns(v) == {n \in DOMAIN v.runs : v.runs[n].isdir /\ Len(v.runs[n].raw) > 0}

RawOfRuns(v) ==
    [j \in 1..Cardinality(DataRuns(v)) |-> v.runs[SortedNames(DataRuns(v))[j]].raw]

HasData(r) == DataRuns(log_dir.dir[r]) # {}

DistinctAliases ==
    \A i, k \in 1..Len(version_data) :
        i # k => version_data[i].alias # version_data[k].alias

\* Every line of version i changed its display intensity in the step.
AllChanged(i) ==
    /\ \A j \in 1..Len(line_collections_main[i]) :
          line_collections_main'[i][j].alpha # line_collections_main[i][j].alpha
    /\ \A j \in 1..Len(line_collections_runs[i]) :
          line_collections_runs'[i][j].alpha # line_collections_runs[i][j].alpha

\* No line of version i changed in the step.
NoneChanged(i) ==
    /\ line_collections_main'[i] = line_collections_main[i]
    /\ line_collections_runs'[i] = line_collections_runs[i]

\* alpha lies in [0, 1].
AlphaInRange == 0 <= alpha.num /\ alpha.num <= alpha.den

(***************************************************************************)
(* C1.  With pairwise distinct aliases, a legend click carrying label L    *)
(* changes the display intensity of every line of the version whose alias  *)
(* is L and leaves the lines of every other version unchanged.             *)
(***************************************************************************)
C1_ClickTogglesTheLabelledVersion ==
    [][ (ClickStep /\ DistinctAliases) =>
           \A i \in 1..Len(version_data) :
               IF version_data[i].alias = event'[1]
               THEN AllChanged(i)
               ELSE NoneChanged(i) ]_vars

(***************************************************************************)
(* C2.  From the default display state, two consecutive clicks with the    *)
(* same label leave every display intensity as it was before the pair.     *)
(* (before is the display the first click found, event its label.)         *)
(***************************************************************************)
C2_TwoClicksRestoreDefault ==
    [][ (ClickStep /\ event # <<>> /\ event' = event /\ before = DefaultDisplay) =>
           Display' = DefaultDisplay ]_vars

\* The second click of such a pair has put hidden mean and run lines back.
C2_Witness ==
    /\ pc = "interactive"
    /\ event # <<>>
    /\ LabelIn(legend_lines_labels, event[1])
    /\ before.main # DefaultDisplay.main
    /\ before.runs # DefaultDisplay.runs
    /\ Display = DefaultDisplay

(***************************************************************************)
(* C3.  A click whose label is no legend label raises nothing and leaves   *)
(* the display intensity of every line unchanged, in any display state.    *)
(***************************************************************************)
C3_UnmatchedClickIgnored ==
    [][ (ClickStep /\ ~LabelIn(legend_lines_labels, event'[1])) =>
           (Display' = Display /\ raised' = "none") ]_vars

\* An unmatched click has been handled while some line was hidden.
C3_Witness ==
    /\ pc = "interactive"
    /\ event # <<>>
    /\ ~LabelIn(legend_lines_labels, event[1])
    /\ legend_lines_labels # <<>>
    /\ Display # DefaultDisplay
    /\ raised = "none"

(***************************************************************************)
(* C4.  The mean curve of a version with data has as many points as the    *)
(* shortest of the version's smoothed run series.                          *)
(***************************************************************************)
C4_MeanLenIsShortestRun ==
    Plotted =>
        \A i \in 1..Len(version_data) :
            version_data[i].run_dataframes # <<>> =>
                /\ Len(line_collections_main[i]) = 1
                /\ line_collections_main[i][1].npoints =
                       MinOf({Len(version_data[i].run_dataframes[j]) :
                                 j \in 1..Len(version_data[i].run_dataframes)})

(***************************************************************************)
(* C5.  When log_dir does not exist or alpha is outside [0, 1], plot()     *)
(* aborts before the figure is created or a line is drawn.                 *)
(***************************************************************************)
C5_MalformedInputAbortsBeforeRendering ==
    (~log_dir.exists \/ ~AlphaInRange) =>
        /\ pc \in {"start", "error"}
        /\ ~fig
        /\ line_collections_main = <<>>
        /\ line_collections_runs = <<>>

(***************************************************************************)
(* C6.  A version directory without a run that has the metric is kept in   *)
(* version_data, has no mean line and no legend entry, and raises nothing; *)
(* the legend has one entry for each version with data, in order.          *)
(***************************************************************************)
C6_EmptyVersionsKeptWithoutLegendEntry ==
    /\ (log_dir.exists /\ \A r \in Dirs : ~HasData(r)) => raised = "none"
    /\ pc \notin {"start", "error"} =>
          /\ Len(version_data) = Cardinality(Dirs)
          /\ \A r \in Dirs :
                ~HasData(r) => version_data[DirPos(r)].run_dataframes = <<>>
    /\ Plotted =>
          /\ Len(line_collections_main) = Cardinality(Dirs)
          /\ \A r \in Dirs :
                (line_collections_main[DirPos(r)] = <<>>) <=> ~HasData(r)
          /\ legend_lines = SortedNames({DirPos(r) : r \in {q \in Dirs : HasData(q)}})
    /\ pc = "interactive" =>
          /\ Len(legend_lines_labels) = Cardinality({r \in Dirs : HasData(r)})
          /\ \A k \in 1..Len(legend_lines_labels) :
                legend_lines_labels[k] = version_data[legend_lines[k]].alias

\* The legend is up for a log_dir with an empty version before one with data.
C6_Witness ==
    /\ pc = "interactive"
    /\ \E r, q \in Dirs : r < q /\ ~HasData(r) /\ HasData(q)
    /\ Len(legend_lines_labels) < Len(version_data)

(***************************************************************************)
(* C7.  Every line of a version has the color of the version's position    *)
(* in the sorted enumeration of the version directories, versions without  *)
(* data counted, in every state that clicks lead to.                       *)
(***************************************************************************)
C7_ColorByEnumerationPosition ==
    Plotted =>
        \A r \in Dirs :
            LET i == DirPos(r)
                c == colors[((i - 1) % Len(colors)) + 1]
            IN  /\ \A j \in 1..Len(line_collections_main[i]) :
                      /\ line_collections_main[i][j].color = c
                      /\ line_collections_main[i][j].label =
                            ResolveAlias(r, log_dir.dir[r])
                /\ \A j \in 1..Len(line_collections_runs[i]) :
                      line_collections_runs[i][j].color = c

\* Lines are hidden after clicks, and a version without data precedes one
\* with data.
C7_Witness ==
    /\ pc = "interactive"
    /\ \E r, q \in Dirs : r < q /\ ~HasData(r) /\ HasData(q)
    /\ Display.main # DefaultDisplay.main
    /\ Display.runs # DefaultDisplay.runs

(***************************************************************************)
(* C8.  For alpha in [0, 1], every smoothed series is as long as its raw   *)
(* series and every smoothed value lies within [min, max] of the raw       *)
(* values.                                                                 *)
(***************************************************************************)
C8_SmoothedWithinRawBounds ==
    (pc \notin {"start", "error"} /\ AlphaInRange) =>
        \A r \in Dirs :
            LET raws == RawOfRuns(log_dir.dir[r])
                dfs == version_data[DirPos(r)].run_dataframes
            IN  /\ Len(dfs) = Len(raws)
                /\ \A j \in 1..Len(raws) :
                      LET lo == MinOf({raws[j][k] : k \in 1..Len(raws[j])})
                          hi == MaxOf({raws[j][k] : k \in 1..Len(raws[j])})
                      IN  /\ Len(dfs[j]) = Len(raws[j])
                          /\ \A k \in 1..Len(raws[j]) :
                                /\ dfs[j][k].den > 0
                                /\ lo * dfs[j][k].den <= dfs[j][k].num
                                /\ dfs[j][k].num <= hi * dfs[j][k].den

\* A series was smoothed under alpha = 1 (the floored decay factor) and a
\* smoothed value differs from the raw one.
C8_Witness ==
    /\ pc = "collected"
    /\ alpha.num = alpha.den
    /\ \E r \in Dirs :
          \E j \in 1..Len(version_data[DirPos(r)].run_dataframes) :
              LET df == version_data[DirPos(r)].run_dataframes[j]
                  raw == RawOfRuns(log_dir.dir[r])[j]
              IN  Len(df) >= 2 /\ df[2].num # raw[2] * df[2].den

(***************************************************************************)
(* C9.  Under plot_mean_only no run line exists, the handler's run-line    *)
(* table is empty for every version, and a click on the label of a version *)
(* toggles that version's mean line between 1.0 and 0 (stated for          *)
(* pairwise distinct aliases).                                             *)
(***************************************************************************)
C9_MeanOnlyClickTogglesMeanLine ==
    [][ (plot_mean_only /\ ClickStep /\ DistinctAliases) =>
           /\ \A i \in 1..Len(line_collections_runs) : line_collections_runs[i] = <<>>
           /\ \A i \in 1..Len(version_data) :
                 (version_data[i].alias = event'[1] /\ line_collections_main[i] # <<>>) =>
                     /\ Len(line_collections_main[i]) = 1
                     /\ line_collections_main'[i][1].alpha =
                           IF line_collections_main[i][1].alpha = 10 THEN 0 ELSE 10 ]_vars

(***************************************************************************)
(* C10.  Whatever was clicked, a mean line is at 0 or 1.0, a run line at 0 *)
(* or 0.3, and the lines of one version are all shown or all hidden.       *)
(***************************************************************************)
C10_IntensitiesAndUniformVisibility ==
    Plotted =>
        \A i \in 1..Len(line_collections_main) :
            LET m == line_collections_main[i]
                rs == line_collections_runs[i]
                all == {m[j].alpha : j \in 1..Len(m)} \cup {rs[j].alpha : j \in 1..Len(rs)}
            IN  /\ \A j \in 1..Len(m) : m[j].alpha \in {0, 10}
                /\ \A j \in 1..Len(rs) : rs[j].alpha \in {0, 3}
                /\ (\A a \in all : a > 0) \/ (\A a \in all : a = 0)

\* One version is hidden with its two run lines while another is shown.
C10_Witness ==
    /\ pc = "interactive"
    /\ event # <<>>
    /\ \E i, k \in 1..Len(line_collections_main) :
          /\ line_collections_main[i] # <<>>
          /\ line_collections_main[i][1].alpha = 0
          /\ Len(line_collections_runs[i]) >= 2
          /\ \A j \in 1..Len(line_collections_runs[i]) :
                line_collections_runs[i][j].alpha = 0
          /\ line_collections_main[k] # <<>>
          /\ line_collections_main[k][1].alpha = 10

====
